---- MODULE Spec2Model ----
(***************************************************************************)
(* Scalar reverse-mode automatic differentiation engine (package autodiff).*)
(*                                                                         *)
(* Nodes are numbered in construction order; node i is nodes[i].  A node's *)
(* _val is val[i] (<<>> for None, <<v>> for a number), its Counter _d is   *)
(* d[i] (a function from the numerator nodes that have an entry to the     *)
(* stored number).  For a Variable, _val is also its bound value.          *)
(***************************************************************************)
EXTENDS Integers, Sequences, FiniteSets, TLC

VARIABLES
    nodes,           \* Seq of [kind, subexps, const, name, var_deps]
    val,             \* node -> _val
    d,               \* node -> _d
    assigned,        \* node -> Variable._assigned (FALSE for non-variables)
    dependent_exps,  \* node -> Variable._dependent_exps ({} for non-variables)
    by_name,         \* Variable._by_name: name -> node, 0 when absent
    scopes,          \* entered AssignmentContext objects, innermost last
    val0, d0,        \* the caches as they would be had no failed read run
    passes           \* number of backprop passes started so far

vars == <<nodes, val, d, assigned, dependent_exps, by_name, scopes, val0, d0, passes>>

\* ---------------------------------------------------------------- bounds
MaxNodes == 3
MaxScopes == 1
MaxPasses == 1
MaxArithNodes == 5
MaxBuildNodes == 5

\* ---------------------------------------------------------------- numbers
\* A number is the pair <<numerator, denominator>> in lowest terms with a
\* positive denominator, so that ** -1 (what / is rewritten to) has a value.
RECURSIVE Gcd(_, _)
Gcd(a, b) == IF b = 0 THEN a ELSE Gcd(b, a % b)

Abs(n) == IF n < 0 THEN -n ELSE n

\* p/q divided through by g
Reduce(p, q, g) ==
    IF q < 0 THEN <<(-p) \div g, (-q) \div g>> ELSE <<p \div g, q \div g>>

\* the number p/q, q # 0
Frac(p, q) == Reduce(p, q, Gcd(Abs(p), Abs(q)))

\* the number n
Whole(n) == <<n, 1>>

\* Python's a + b, a * b
Plus(a, b) == Frac(a[1] * b[2] + b[1] * a[2], a[2] * b[2])
Times(a, b) == Frac(a[1] * b[1], a[2] * b[2])

\* Python's a ** p raises ZeroDivisionError for zero a and negative p
PowerRaises(a, p) == p < 0 /\ a[1] = 0

\* Python's a ** p for an integer p, where it has a value
Power(a, p) ==
    IF p >= 0 THEN <<a[1] ^ p, a[2] ^ p>> ELSE Frac(a[2] ^ (-p), a[1] ^ (-p))

\* math.log(c) of a number raises ValueError unless c > 0
LogRaises(c) == c[1] <= 0

\* math.log(c) of a number c > 0: 0 for 1, otherwise a float no pair stands
\* for, kept as the term it is
Log(c) == IF c = Whole(1) THEN Whole(0) ELSE <<"log", c, <<>>>>

\* the number c is a pair, not a term
IsPair(c) == Len(c) = 2

\* c ** -1 of a number or term c other than 0
Inverse(c) == IF IsPair(c) THEN Power(c, -1) ELSE <<"**", c, Whole(-1)>>

Names == {"x", "y"}
LogConsts == {Whole(0), Whole(1), Whole(2)}
Values == {Whole(2), Whole(3)}
Consts == {Whole(2)}
Powers == {2}
ArithConsts == {Whole(0), Whole(2)}

None == <<>>
Some(v) == <<v>>

NodeIds == 1..Len(nodes)
IsVar(n) == nodes[n].kind = "var"
VarIds == {n \in NodeIds : IsVar(n)}
ExprIds == {n \in NodeIds : ~IsVar(n)}
Range(s) == {s[i] : i \in 1..Len(s)}

\* ------------------------------------------------------------ construction
\* a _var_deps that looks one operand level down only
VarDeps_Direct(subexps) == {e \in Range(subexps) : IsVar(e)}

\* Expression.__init__: the new node's _var_deps, from its operands
VarDeps(subexps) ==
    UNION {IF IsVar(e) THEN {e} ELSE nodes[e].var_deps : e \in Range(subexps)}

\* Expression.__init__: every variable of _var_deps records the new node
AddDependent(deps, id) ==
    [v \in 1..Len(dependent_exps) |->
        IF v \in deps THEN dependent_exps[v] \cup {id} ELSE dependent_exps[v]]

Expression_init_Invalidates(kind, subexps, c) ==
    LET id == Len(nodes) + 1
        deps == VarDeps(subexps)
    IN  /\ Len(nodes) < MaxNodes
        /\ nodes' = Append(nodes, [kind |-> kind, subexps |-> subexps, const |-> c,
                                   name |-> "", var_deps |-> deps])
        /\ dependent_exps' = Append(AddDependent(deps, id), {})
        /\ val' = Append([n \in 1..Len(val) |->
                             IF n \in Range(subexps) /\ nodes[n].kind # "var"
                             THEN None ELSE val[n]], None)
        /\ d' = Append(d, <<>>)
        /\ val0' = Append(val0, None)
        /\ d0' = Append(d0, <<>>)
        /\ assigned' = Append(assigned, FALSE)
        /\ UNCHANGED <<by_name, scopes, passes>>

Expression_init(kind, subexps, c) ==
    LET id == Len(nodes) + 1
        deps == VarDeps(subexps)
    IN  /\ Len(nodes) < MaxNodes
        /\ nodes' = Append(nodes, [kind |-> kind, subexps |-> subexps, const |-> c,
                                   name |-> "", var_deps |-> deps])
        /\ dependent_exps' = Append(AddDependent(deps, id), {})
        /\ val' = Append(val, None)
        /\ d' = Append(d, <<>>)
        /\ val0' = Append(val0, None)
        /\ d0' = Append(d0, <<>>)
        /\ assigned' = Append(assigned, FALSE)
        /\ UNCHANGED <<by_name, scopes, passes>>

\* Variable.__init__: the exception the name check raises ("" for none)
Variable_init_raises(name) == IF by_name[name] # 0 THEN "ValueError" ELSE ""

\* Variable.get_by_name
get_by_name(name) ==
    IF by_name[name] = 0
    THEN [ok |-> FALSE, err |-> "KeyError", v |-> 0]
    ELSE [ok |-> TRUE, err |-> "", v |-> by_name[name]]

\* a constructor that registers the new variable over an existing name
Variable_init_Overwrite(name) ==
    /\ Len(nodes) < MaxNodes
    /\ nodes' = Append(nodes, [kind |-> "var", subexps |-> <<>>, const |-> 0,
                               name |-> name, var_deps |-> {}])
    /\ by_name' = [by_name EXCEPT ![name] = Len(nodes) + 1]
    /\ dependent_exps' = Append(dependent_exps, {})
    /\ assigned' = Append(assigned, FALSE)
    /\ val' = Append(val, None)
    /\ d' = Append(d, <<>>)
    /\ val0' = Append(val0, None)
    /\ d0' = Append(d0, <<>>)
    /\ UNCHANGED <<scopes, passes>>

\* Variable.__init__
Variable_init(name) ==
    IF Variable_init_raises(name) # ""
    THEN UNCHANGED vars   \* raise ValueError
    ELSE LET id == Len(nodes) + 1
         IN /\ Len(nodes) < MaxNodes
            /\ nodes' = Append(nodes, [kind |-> "var", subexps |-> <<>>, const |-> 0,
                                       name |-> name, var_deps |-> {}])
            /\ by_name' = [by_name EXCEPT ![name] = id]
            /\ dependent_exps' = Append(dependent_exps, {})
            /\ assigned' = Append(assigned, FALSE)
            /\ val' = Append(val, None)
            /\ d' = Append(d, <<>>)
            /\ val0' = Append(val0, None)
            /\ d0' = Append(d0, <<>>)
            /\ UNCHANGED <<scopes, passes>>

\* Expression.__add__ / __mul__ / __pow__
AdditionExpression(a, b) == Expression_init("add", <<a, b>>, 0)
ConstantAdditionExpression(a, c) == Expression_init("addc", <<a>>, c)
MultiplicationExpression(a, b) == Expression_init("mul", <<a, b>>, 0)
ConstantMultiplicationExpression(a, c) == Expression_init("mulc", <<a>>, c)
PowerExpression(a, p) == Expression_init("pow", <<a>>, p)

\* Two constructor calls in one operator expression: the node k1(s1, c1) and
\* then the node k2 over that node (and, first, over the node a when a # 0).
Expression_init_twice(k1, s1, c1, k2, a, c2) ==
    LET id == Len(nodes) + 1
        deps1 == VarDeps(s1)
        deps2 == IF a = 0 THEN deps1 ELSE VarDeps(<<a>>) \cup deps1
    IN  /\ Len(nodes) + 2 <= MaxArithNodes
        /\ nodes' = nodes \o
               <<[kind |-> k1, subexps |-> s1, const |-> c1, name |-> "",
                  var_deps |-> deps1],
                 [kind |-> k2, subexps |-> IF a = 0 THEN <<id>> ELSE <<a, id>>,
                  const |-> c2, name |-> "", var_deps |-> deps2]>>
        /\ dependent_exps' =
               [v \in 1..Len(dependent_exps) |->
                   dependent_exps[v] \cup (IF v \in deps1 THEN {id} ELSE {})
                                     \cup (IF v \in deps2 THEN {id + 1} ELSE {})]
               \o <<{}, {}>>
        /\ val' = val \o <<None, None>>
        /\ d' = d \o <<<<>>, <<>>>>
        /\ val0' = val0 \o <<None, None>>
        /\ d0' = d0 \o <<<<>>, <<>>>>
        /\ assigned' = assigned \o <<FALSE, FALSE>>
        /\ UNCHANGED <<by_name, scopes, passes>>

\* a subtraction that forgets the factor -1
Expression_sub_Plus(a, b) ==
    Expression_init_twice("mulc", <<b>>, Whole(1), "add", a, 0)

\* Expression.__sub__ with an Expression: self + -1 * other
Expression_sub(a, b) ==
    Expression_init_twice("mulc", <<b>>, Whole(-1), "add", a, 0)

\* Expression.__sub__ with a number: self + -1 * other
Expression_sub_const(a, c) == ConstantAdditionExpression(a, Times(Whole(-1), c))

\* Expression.__rsub__: other + -1 * self
Expression_rsub(a, c) ==
    Expression_init_twice("mulc", <<a>>, Whole(-1), "addc", 0, c)

\* Expression.__truediv__ with an Expression: self * other ** -1
Expression_truediv(a, b) ==
    Expression_init_twice("pow", <<b>>, -1, "mul", a, 0)

\* Expression.__truediv__ with a number: self * other ** -1, where other ** -1
\* raises ZeroDivisionError for 0 before any node is made
Expression_truediv_const(a, c) ==
    IF PowerRaises(c, -1)
    THEN UNCHANGED vars
    ELSE ConstantMultiplicationExpression(a, Power(c, -1))

\* Expression.__rtruediv__: other * self ** -1
Expression_rtruediv(a, c) ==
    Expression_init_twice("pow", <<a>>, -1, "mulc", 0, c)

\* ------------------------------------------------- composite constructions
\* An operator or function call that makes several nodes makes them one after
\* the other on the graph g = [nodes, dependent_exps] the earlier ones left.
Graph == [nodes |-> nodes, dependent_exps |-> dependent_exps]

\* Expression.__init__ on g: the new node's _var_deps
VarDepsIn(g, subexps) ==
    UNION {IF g.nodes[e].kind = "var" THEN {e} ELSE g.nodes[e].var_deps :
               e \in Range(subexps)}

\* Expression.__init__ on g, given the new node's _var_deps
Constructed(g, kind, subexps, c, deps) ==
    [nodes |-> Append(g.nodes, [kind |-> kind, subexps |-> subexps, const |-> c,
                                name |-> "", var_deps |-> deps]),
     dependent_exps |->
         Append([v \in 1..Len(g.dependent_exps) |->
                    IF v \in deps THEN g.dependent_exps[v] \cup {Len(g.nodes) + 1}
                                  ELSE g.dependent_exps[v]],
                {})]

\* Expression.__init__ on g
Construct(g, kind, subexps, c) ==
    Constructed(g, kind, subexps, c, VarDepsIn(g, subexps))

\* the id of the node made last on g, and of the one before it
Top(g) == Len(g.nodes)

\* k fresh caches
Fresh(k, empty) == [i \in 1..k |-> empty]

\* the state once the calls have left the graph g
Built(g) ==
    /\ Len(g.nodes) <= MaxBuildNodes
    /\ nodes' = g.nodes
    /\ dependent_exps' = g.dependent_exps
    /\ val' = val \o Fresh(Len(g.nodes) - Len(nodes), None)
    /\ d' = d \o Fresh(Len(g.nodes) - Len(nodes), <<>>)
    /\ val0' = val0 \o Fresh(Len(g.nodes) - Len(nodes), None)
    /\ d0' = d0 \o Fresh(Len(g.nodes) - Len(nodes), <<>>)
    /\ assigned' = assigned \o Fresh(Len(g.nodes) - Len(nodes), FALSE)
    /\ UNCHANGED <<by_name, scopes, passes>>

\* exp(g, a), ln(g, a) on an Expression a of g
ExpOn(g, a) == Construct(g, "exp", <<a>>, 0)
LnOn(g, a) == Construct(g, "ln", <<a>>, 0)

\* a * b, a ** -1 and a / b on Expressions a, b of g
MulOn(g, a, b) == Construct(g, "mul", <<a, b>>, 0)
InverseOn(g, a) == Construct(g, "pow", <<a>>, -1)
DivTop(g, a) == MulOn(g, a, Top(g))

\* exp(exponent), ln(arg), logistic(arg) with an Expression
exp(a) == Expression_init("exp", <<a>>, 0)
ln(a) == Expression_init("ln", <<a>>, 0)
logistic(a) == Expression_init("logistic", <<a>>, 0)

\* Expression.__neg__: -1 * self
Expression_neg(a) == ConstantMultiplicationExpression(a, Whole(-1))

\* the product ln(self) * power made, exp of it
ExpTop(g) == ExpOn(g, Top(g))

\* ln(self) made, its product with power
MulTop(g, b) == MulOn(g, Top(g), b)

\* Expression.__pow__ with an Expression: exp(ln(self) * power)
Expression_pow(a, b) == Built(ExpTop(MulTop(LnOn(Graph, a), b)))

\* Expression.__rpow__: exp(ln(other) * self), where ln of a number that is
\* not positive raises ValueError before any node is made
Expression_rpow(a, c) ==
    IF LogRaises(c)
    THEN UNCHANGED vars
    ELSE Expression_init_twice("mulc", <<a>>, Log(c), "exp", 0, 0)

\* ln(arg) and ln(base) made, the quotient of the two
DivTops(g) == DivTop(InverseOn(g, Top(g)), Top(g) - 1)

\* log(arg, base) with two Expressions: ln(arg) / ln(base)
log(a, b) == Built(DivTops(LnOn(LnOn(Graph, a), b)))

\* log(arg, base) with an Expression and a number: ln(arg) is made first; then
\* ln(base) raises ValueError for a base that is not positive and
\* ln(arg) / ln(base) raises ZeroDivisionError for the base 1
log_base(a, c) ==
    IF LogRaises(c) \/ c = Whole(1)
    THEN ln(a)
    ELSE Expression_init_twice("ln", <<a>>, 0, "mulc", 0, Inverse(Log(c)))

\* ln(base) made, the number ln(arg) over it: other * self ** -1
RdivTop(g, c) == Construct(InverseOn(g, Top(g)), "mulc", <<Top(g) + 1>>, c)

\* log(arg, base) with a number and an Expression: ln(arg) raises ValueError
\* before any node is made for an arg that is not positive
log_arg(c, b) ==
    IF LogRaises(c)
    THEN UNCHANGED vars
    ELSE Built(RdivTop(LnOn(Graph, b), Log(c)))

\* ------------------------------------------------------------ evaluation
\* a call that returns v, and a call that raises e, leaving the _val's vl behind
Return(v, vl) == [ok |-> TRUE, err |-> "", v |-> v, val |-> vl]
Raise(e, vl) == [ok |-> FALSE, err |-> e, v |-> Whole(0), val |-> vl]

RECURSIVE Val(_, _)

\* _calc of the two-operand kinds, given the outcomes l and r of the operands' val
CalcBinary(n, l, r) ==
    IF ~r.ok THEN r
    ELSE IF nodes[n].kind = "add" THEN Return(Plus(l.v, r.v), r.val)
    ELSE Return(Times(l.v, r.v), r.val)

\* _calc of an expression, given the outcome l of its first operand's val
CalcExpression(n, l) ==
    IF ~l.ok THEN l
    ELSE IF nodes[n].kind = "addc" THEN Return(Plus(l.v, nodes[n].const), l.val)
    ELSE IF nodes[n].kind = "mulc" THEN Return(Times(l.v, nodes[n].const), l.val)
    ELSE IF nodes[n].kind = "pow"
         THEN IF PowerRaises(l.v, nodes[n].const)
              THEN Raise("ZeroDivisionError", l.val)
              ELSE Return(Power(l.v, nodes[n].const), l.val)
    ELSE CalcBinary(n, l, Val(l.val, nodes[n].subexps[2]))

\* each kind's _calc: operands are evaluated left to right, and an operand's
\* result stays cached when a later operand raises
Calc(vl, n) ==
    IF nodes[n].kind = "var"
    THEN IF assigned[n] THEN Return(vl[n][1], vl)
                        ELSE Raise("VariableAssignmentError", vl)
    ELSE CalcExpression(n, Val(vl, nodes[n].subexps[1]))

\* Expression.val: self._val = self._calc() when the call returns c
Cache(n, c) == IF c.ok THEN Return(c.v, [c.val EXCEPT ![n] = Some(c.v)]) ELSE c

\* Expression.val
Val(vl, n) == IF vl[n] # None THEN Return(vl[n][1], vl) ELSE Cache(n, Calc(vl, n))

\* ------------------------------------------------------------ backprop
\* Counter lookup: a missing key reads as 0 and is not inserted
Get(c, k) == IF k \in DOMAIN c THEN c[k] ELSE Whole(0)

\* Counter item assignment
Put(c, k, v) == (k :> v) @@ c

\* Expression._backprop, "Make the incoming list using DFS": the for loop over
\* curr._subexps from position i on; exp is added to q unless visited
RECURSIVE DfsEdges(_, _, _, _, _)
DfsEdges(curr, i, q, visited, incoming) ==
    IF i > Len(nodes[curr].subexps)
    THEN [q |-> q, visited |-> visited, incoming |-> incoming]
    ELSE DfsEdges(curr, i + 1,
                  IF nodes[curr].subexps[i] \notin visited
                  THEN Append(q, nodes[curr].subexps[i]) ELSE q,
                  visited \cup {nodes[curr].subexps[i]},
                  [incoming EXCEPT ![nodes[curr].subexps[i]] = @ \cup {curr}])

\* the while loop over the stack q: curr = q.pop()
RECURSIVE Dfs(_)
Dfs(r) ==
    IF r.q = <<>>
    THEN r.incoming
    ELSE Dfs(DfsEdges(r.q[Len(r.q)], 1, SubSeq(r.q, 1, Len(r.q) - 1),
                      r.visited, r.incoming))

\* incoming[nbr].discard(curr_node)
Discard(incoming, nbr, curr) == [incoming EXCEPT ![nbr] = @ \ {curr}]

\* Expression._backprop, "Kahns algo": the for loop over curr_node._subexps
\* from position i on; nbr is freed when incoming[nbr] is empty
RECURSIVE KahnEdges(_, _, _, _, _)
KahnEdges(curr, i, free, order, incoming) ==
    IF i > Len(nodes[curr].subexps)
    THEN [free |-> free, order |-> order, incoming |-> incoming]
    ELSE KahnEdges(curr, i + 1,
                   IF incoming[nodes[curr].subexps[i]] \subseteq {curr}
                   THEN Append(free, nodes[curr].subexps[i]) ELSE free,
                   order,
                   Discard(incoming, nodes[curr].subexps[i], curr))

\* the while loop over free_nodes: curr_node = free_nodes.pop()
RECURSIVE Kahn(_)
Kahn(r) ==
    IF r.free = <<>>
    THEN r.order
    ELSE Kahn(KahnEdges(r.free[Len(r.free)], 1, SubSeq(r.free, 1, Len(r.free) - 1),
                        Append(r.order, r.free[Len(r.free)]), r.incoming))

\* the processing order a pass from root computes
Order(root) ==
    Kahn([free |-> <<root>>, order |-> <<>>,
          incoming |-> Dfs([q |-> <<root>>, visited |-> {},
                            incoming |-> [n \in NodeIds |-> {}]])])

\* the operand whose val the local-derivative rule of slot idx reads:
\* PowerExpression.derivative reads base, MultiplicationExpression.left_deriv
\* (slot 1) right_factor and right_deriv (slot 2) left_factor
RuleOperand(n, idx) ==
    IF nodes[n].kind = "pow" THEN nodes[n].subexps[1] ELSE nodes[n].subexps[3 - idx]

\* the rule's result, given the outcome b of that read
Rule(n, b) ==
    IF ~b.ok THEN b
    ELSE IF nodes[n].kind = "pow"
         THEN IF PowerRaises(b.v, nodes[n].const - 1)
              THEN Raise("ZeroDivisionError", b.val)
              ELSE Return(Times(Whole(nodes[n].const), Power(b.v, nodes[n].const - 1)),
                          b.val)
    ELSE b

\* cls._derivs[idx](self): the local-derivative rule of operand slot idx
Derivs(vl, n, idx) ==
    IF nodes[n].kind \in {"add", "addc"} THEN Return(Whole(1), vl)
    ELSE IF nodes[n].kind = "mulc" THEN Return(nodes[n].const, vl)
    ELSE Rule(n, Val(vl, RuleOperand(n, idx)))

RECURSIVE Deriv(_, _, _, _, _)

\* expr._d[numer] += self._d[numer] * ld, ld being the outcome of the rule; a
\* rule that raises leaves expr._d as it was
Accumulate(dm, n, numer, idx, ld) ==
    IF ~ld.ok
    THEN [ok |-> FALSE, err |-> ld.err, val |-> ld.val, d |-> dm]
    ELSE Deriv(ld.val,
               [dm EXCEPT ![nodes[n].subexps[idx]] =
                   Put(@, numer, Plus(Get(@, numer), Times(Get(dm[n], numer), ld.v)))],
               n, numer, idx + 1)

\* Expression._deriv / Variable._deriv, from operand slot idx on
Deriv(vl, dm, n, numer, idx) ==
    IF IsVar(n) \/ idx > Len(nodes[n].subexps)
    THEN [ok |-> TRUE, err |-> "", val |-> vl, d |-> dm]
    ELSE Accumulate(dm, n, numer, idx, Derivs(vl, n, idx))

\* "Loop through topo sorted deps and find derivs", r being the outcome so far
RECURSIVE DerivAll(_, _, _, _)
DerivAll(r, order, i, numer) ==
    IF ~r.ok \/ i > Len(order)
    THEN r
    ELSE DerivAll(Deriv(r.val, r.d, order[i], numer, 1), order, i + 1, numer)

\* a pass that forgets "Deriv of self wrt self is 1"
Backprop_NoSeed(vl, dm, root) ==
    IF root \in DOMAIN dm[root]
    THEN [ok |-> TRUE, err |-> "", val |-> vl, d |-> dm]
    ELSE DerivAll([ok |-> TRUE, err |-> "", val |-> vl, d |-> dm], Order(root), 1, root)

\* a pass without the "already a backprop from this point" return
Backprop_NoShortCircuit(vl, dm, root) ==
    DerivAll([ok |-> TRUE, err |-> "", val |-> vl,
              d |-> [dm EXCEPT ![root] = Put(@, root, Whole(1))]],
             Order(root), 1, root)

\* Expression._backprop
Backprop(vl, dm, root) ==
    IF root \in DOMAIN dm[root]
    THEN [ok |-> TRUE, err |-> "", val |-> vl, d |-> dm]
    ELSE DerivAll([ok |-> TRUE, err |-> "", val |-> vl,
                   d |-> [dm EXCEPT ![root] = Put(@, root, Whole(1))]],
                  Order(root), 1, root)

\* a lookup that stores the default it reads (a defaultdict, not a Counter)
Lookup_Inserts(r, num, denom) ==
    [ok |-> r.ok, err |-> r.err, v |-> IF r.ok THEN Get(r.d[denom], num) ELSE Whole(0),
     val |-> r.val,
     d |-> IF r.ok THEN [r.d EXCEPT ![denom] = Put(@, num, Get(@, num))] ELSE r.d]

\* return self._denom._d[self._num], r being the outcome of the pass
Lookup(r, num, denom) ==
    [ok |-> r.ok, err |-> r.err, v |-> IF r.ok THEN Get(r.d[denom], num) ELSE Whole(0),
     val |-> r.val, d |-> r.d]

\* DerivativeView.val
DerivativeView_val(vl, dm, num, denom) == Lookup(Backprop(vl, dm, num), num, denom)

\* --------------------------------------------------------- bind / unbind
\* a set that rebinds an assigned variable
Set_Rebind(asg, vl, v, x) ==
    [ok |-> TRUE, err |-> "", msg |-> "", assigned |-> [asg EXCEPT ![v] = TRUE],
     val |-> [vl EXCEPT ![v] = Some(x)]]

\* Variable.set on the flags asg and the values vl
Set(asg, vl, v, x) ==
    IF asg[v]
    THEN [ok |-> FALSE, err |-> "VariableAssignmentError", msg |-> "is already assigned",
          assigned |-> asg, val |-> vl]
    ELSE [ok |-> TRUE, err |-> "", msg |-> "", assigned |-> [asg EXCEPT ![v] = TRUE],
          val |-> [vl EXCEPT ![v] = Some(x)]]

\* Expression.unset on every node of the set ns
Clear(c, ns, empty) == [n \in 1..Len(c) |-> IF n \in ns THEN empty ELSE c[n]]

\* an unset that forgets the variable's _dependent_exps
Invalidated_OnlySelf(v) == {v}

\* an unset that forgets the variable's own super().unset()
Invalidated_OnlyDependents(v) == dependent_exps[v]

\* Variable.unset: the nodes it invalidates (itself and _dependent_exps)
Invalidated(v) == {v} \cup dependent_exps[v]

\* Variable.unset on the flags asg, the values vl and the counters dm
Unset(asg, vl, dm, v) ==
    IF ~asg[v]
    THEN [ok |-> FALSE, err |-> "VariableAssignmentError", msg |-> "is not assigned",
          assigned |-> asg, val |-> vl, d |-> dm]
    ELSE [ok |-> TRUE, err |-> "", msg |-> "", assigned |-> [asg EXCEPT ![v] = FALSE],
          val |-> Clear(vl, Invalidated(v), None),
          d |-> Clear(dm, Invalidated(v), <<>>)]

\* an unset of an expression that reaches down to its operands
Expression_unset_Operands(n) ==
    /\ val' = Clear(val, {n} \cup Range(nodes[n].subexps), None)
    /\ d' = Clear(d, {n} \cup Range(nodes[n].subexps), <<>>)
    /\ val0' = Clear(val0, {n} \cup Range(nodes[n].subexps), None)
    /\ d0' = Clear(d0, {n} \cup Range(nodes[n].subexps), <<>>)
    /\ UNCHANGED <<nodes, assigned, dependent_exps, by_name, scopes, passes>>

\* Expression.unset called on a node that is not a Variable
Expression_unset(n) ==
    /\ val' = Clear(val, {n}, None)
    /\ d' = Clear(d, {n}, <<>>)
    /\ val0' = Clear(val0, {n}, None)
    /\ d0' = Clear(d0, {n}, <<>>)
    /\ UNCHANGED <<nodes, assigned, dependent_exps, by_name, scopes, passes>>

Variable_set(v, x) ==
    /\ assigned' = Set(assigned, val, v, x).assigned
    /\ val' = Set(assigned, val, v, x).val
    /\ val0' = Set(assigned, val0, v, x).val
    /\ UNCHANGED <<nodes, d, d0, dependent_exps, by_name, scopes, passes>>

Variable_unset(v) ==
    /\ assigned' = Unset(assigned, val, d, v).assigned
    /\ val' = Unset(assigned, val, d, v).val
    /\ d' = Unset(assigned, val, d, v).d
    /\ val0' = Unset(assigned, val0, d0, v).val
    /\ d0' = Unset(assigned, val0, d0, v).d
    /\ UNCHANGED <<nodes, dependent_exps, by_name, scopes, passes>>

\* ----------------------------------------------------------------- scopes
\* the keyword arguments of assign(): name/value pairs, names distinct
Batches ==
    {<<<<nm, x>>>> : nm \in Names, x \in Values}
    \cup {b \in {<<<<n1, x1>>, <<n2, x2>>>> : n1 \in Names, n2 \in Names,
                                                x1 \in Values, x2 \in Values} :
                b[1][1] # b[2][1]}

BatchNames(batch) == [i \in 1..Len(batch) |-> batch[i][1]]

\* AssignmentContext.__enter__ from item i on: Variable.get_by_name(name).val = val;
\* "at" is the item that raised
RECURSIVE Enter(_, _, _, _)

\* an __enter__ that takes back the bindings it made when an item raises
EnterNext_Rollback(batch, i, r) ==
    IF ~r.ok
    THEN [ok |-> FALSE, err |-> r.err, at |-> i, assigned |-> assigned, val |-> r.val]
    ELSE Enter(batch, i + 1, r.assigned, r.val)

\* the loop after the outcome r of item i's Variable.set
EnterNext(batch, i, r) ==
    IF ~r.ok THEN r @@ [at |-> i] ELSE Enter(batch, i + 1, r.assigned, r.val)

Enter(batch, i, asg, vl) ==
    IF i > Len(batch)
    THEN [ok |-> TRUE, err |-> "", at |-> 0, assigned |-> asg, val |-> vl]
    ELSE IF ~get_by_name(batch[i][1]).ok
    THEN [ok |-> FALSE, err |-> get_by_name(batch[i][1]).err, at |-> i,
          assigned |-> asg, val |-> vl]
    ELSE EnterNext(batch, i, Set(asg, vl, get_by_name(batch[i][1]).v, batch[i][2]))

\* AssignmentContext.__exit__ from name i on, r being the outcome so far:
\* Variable.get_by_name(name).unset()
RECURSIVE Exit(_, _, _)
Exit(names, i, r) ==
    IF ~r.ok \/ i > Len(names)
    THEN r
    ELSE Exit(names, i + 1, Unset(r.assigned, r.val, r.d, by_name[names[i]]))

\* the state a call starts from
Start(vl, dm) == [ok |-> TRUE, err |-> "", msg |-> "", assigned |-> assigned, val |-> vl, d |-> dm]

\* the bindings after __enter__ with outcome r (r0: on the other caches)
Entered(batch, r, r0) ==
    /\ r.ok => Len(scopes) < MaxScopes
    /\ assigned' = r.assigned
    /\ val' = r.val
    /\ val0' = r0.val
    /\ scopes' = IF r.ok THEN Append(scopes, BatchNames(batch)) ELSE scopes

\* with assign(**batch): entering the block.  The with statement keeps the guard
\* only when __enter__ returns; its names are all that __exit__ reads of it.
AssignmentContext_enter(batch) ==
    /\ Entered(batch, Enter(batch, 1, assigned, val), Enter(batch, 1, assigned, val0))
    /\ UNCHANGED <<nodes, d, d0, dependent_exps, by_name, passes>>

\* the state after __exit__ with outcome r (r0: on the other caches)
Exited(r, r0) ==
    /\ assigned' = r.assigned
    /\ val' = r.val
    /\ d' = r.d
    /\ val0' = r0.val
    /\ d0' = r0.d

\* leaving the innermost block, normally (exc_type = "None") or with the body's
\* exception in flight; __exit__ does not look at exc_type
AssignmentContext_exit(exc_type) ==
    /\ scopes # <<>>
    /\ Exited(Exit(scopes[Len(scopes)], 1, Start(val, d)),
              Exit(scopes[Len(scopes)], 1, Start(val0, d0)))
    /\ scopes' = SubSeq(scopes, 1, Len(scopes) - 1)
    /\ UNCHANGED <<nodes, dependent_exps, by_name, passes>>

\* what the with statement raises to its caller when the body left with
\* exc_type and __exit__ had the outcome r: __exit__ returns None, so the body's
\* error goes on, unless __exit__ itself raised, and then that error goes out
with_raises(exc_type, r) == IF ~r.ok THEN r.err ELSE exc_type

\* ------------------------------------------------------------------ reads
\* the caches after a read with outcome r; r0 is the outcome of the same read
\* on the caches that no failed read has touched
Read(r, r0) ==
    /\ val' = r.val
    /\ d' = r.d
    /\ val0' = IF r.ok THEN r0.val ELSE val0
    /\ d0' = IF r.ok THEN r0.d ELSE d0

\* value(exp) on an Expression
value(n) ==
    /\ Read(Val(val, n) @@ [d |-> d], Val(val0, n) @@ [d |-> d0])
    /\ UNCHANGED <<nodes, assigned, dependent_exps, by_name, scopes, passes>>

\* value(d(num, denom)); a pass starts unless num already has its own entry
value_d(num, denom) ==
    /\ num \notin DOMAIN d[num] => passes < MaxPasses
    /\ passes' = IF num \notin DOMAIN d[num] THEN passes + 1 ELSE passes
    /\ Read(DerivativeView_val(val, d, num, denom),
            DerivativeView_val(val0, d0, num, denom))
    /\ UNCHANGED <<nodes, assigned, dependent_exps, by_name, scopes>>

\* ------------------------------------------------- reference definitions
\* the nodes reachable from n through operand edges, n included
RECURSIVE Reach(_)
Reach(n) == {n} \cup UNION {Reach(e) : e \in Range(nodes[n].subexps)}

\* the value of n goes through no math.exp and no math.log, whose floats the
\* model's numbers do not hold
Exact(n) ==
    \A e \in Reach(n) :
        /\ nodes[e].kind \notin {"exp", "ln", "logistic"}
        /\ nodes[e].kind \in {"addc", "mulc"} => IsPair(nodes[e].const)

\* the leaf variables n transitively depends on
Leaves(n) == {m \in Reach(n) : IsVar(m)}

AllBound(n) == \A v \in Leaves(n) : assigned[v]

\* ordinary arithmetic on the numbers the leaves are bound to
RECURSIVE Arith(_)
Arith(n) ==
    LET k == nodes[n].kind
        s == nodes[n].subexps
    IN  IF k = "var" THEN val[n][1]
        ELSE IF k = "add" THEN Plus(Arith(s[1]), Arith(s[2]))
        ELSE IF k = "addc" THEN Plus(Arith(s[1]), nodes[n].const)
        ELSE IF k = "mul" THEN Times(Arith(s[1]), Arith(s[2]))
        ELSE IF k = "mulc" THEN Times(Arith(s[1]), nodes[n].const)
        ELSE Power(Arith(s[1]), nodes[n].const)

\* the partial derivative of n's value with respect to its operand slot idx
Local(n, idx) ==
    LET k == nodes[n].kind
        s == nodes[n].subexps
    IN  IF k \in {"add", "addc"} THEN Whole(1)
        ELSE IF k = "mulc" THEN nodes[n].const
        ELSE IF k = "pow"
             THEN Times(Whole(nodes[n].const), Power(Arith(s[1]), nodes[n].const - 1))
        ELSE Arith(s[3 - idx])

\* the sum over all operand paths from r to n of the product of the local
\* derivatives along the path
RECURSIVE PathSum(_, _)
SlotSum(r, n, idx) == Times(Local(r, idx), PathSum(nodes[r].subexps[idx], n))
PathSum(r, n) ==
    IF r = n THEN Whole(1)
    ELSE IF Len(nodes[r].subexps) = 0 THEN Whole(0)
    ELSE IF Len(nodes[r].subexps) = 1 THEN SlotSum(r, n, 1)
    ELSE Plus(SlotSum(r, n, 1), SlotSum(r, n, 2))

\* no node carries a partial-derivative entry keyed by r
NoEntries(r) == \A m \in NodeIds : r \notin DOMAIN d[m]

\* ------------------------------------------------------------------ claims
\* C1: a backprop pass rooted at R, run with all of R's leaves bound and no
\* entry keyed by R present beforehand, leaves on every node N reachable from R
\* the path-sum derivative of R with respect to N.
C1_BackpropPathSum ==
    [][\A R \in NodeIds, N \in NodeIds :
          (value_d(R, N) /\ AllBound(R) /\ NoEntries(R))
              => \A m \in Reach(R) : /\ R \in DOMAIN d'[m]
                                    /\ d'[m][R] = PathSum(R, m)]_vars

\* C2: a successful unbind of a leaf variable of root R leaves no entry keyed
\* by R on any node of R's subgraph.
C2_UnbindInvalidatesRoot ==
    [][\A v \in VarIds :
          (Variable_unset(v) /\ assigned[v])
              => \A R \in NodeIds :
                     v \in Leaves(R) => \A m \in Reach(R) : R \notin DOMAIN d'[m]]_vars

\* C3: once R's leaves are bound, a read of value(E) or of d(R, N) returns what
\* it would return had the failed reads never been attempted.
C3_FailedReadHarmless ==
    \A R \in NodeIds :
        AllBound(R) =>
            /\ Val(val, R).v = Val(val0, R).v
            /\ \A N \in NodeIds :
                   DerivativeView_val(val, d, R, N).v = DerivativeView_val(val0, d0, R, N).v

\* C4: a value() or derivative read that fails leaves every node's _val and _d
\* as they were.
C4_FailedReadFrame ==
    [][/\ \A n \in NodeIds :
              (value(n) /\ ~Val(val, n).ok) => (val' = val /\ d' = d)
       /\ \A R \in NodeIds, N \in NodeIds :
              (value_d(R, N) /\ ~DerivativeView_val(val, d, R, N).ok)
                  => (val' = val /\ d' = d)]_vars

\* C5: a read of d(R, N) made while a leaf variable of R is unbound fails with
\* the unassigned-variable error.
C5_UnboundDerivativeFails ==
    [][\A R \in NodeIds, N \in NodeIds :
          (value_d(R, N) /\ ~AllBound(R))
              => DerivativeView_val(val, d, R, N).err = "VariableAssignmentError"]_vars

\* C6: a successful value(E) equals E's arithmetic on the numbers its leaves
\* are bound to at the time of the read.
C6_ValueIsCurrent ==
    \A n \in NodeIds :
        Val(val, n).ok => (AllBound(n) /\ Val(val, n).v = Arith(n))

\* a compound expression read again after one of its leaves was unbound and
\* bound again: another leaf still carries the entry of a pass that the unbind
\* removed from the root, and the root's value is cached again
C6_Witness ==
    \E R \in ExprIds, y \in VarIds :
        /\ R \in DOMAIN d[y] /\ R \notin DOMAIN d[R]
        /\ val[R] # None /\ Val(val, R).v = Arith(R)

\* C7: a node's _val is present only if every leaf variable it transitively
\* depends on is assigned.
C7_CachedOnlyIfBound ==
    \A n \in NodeIds : val[n] # None => AllBound(n)

\* a node two operand levels above a variable: its value was cached by a read,
\* the variable was then unbound and the cache is gone, while a pass that ran in
\* between is still counted
C7_Witness ==
    \E n \in ExprIds, e \in ExprIds, v \in VarIds :
        /\ e \in Range(nodes[n].subexps) /\ v \in Range(nodes[e].subexps)
        /\ ~assigned[v] /\ val[n] = None /\ val[e] = None
        /\ passes > 0 /\ NoEntries(n)

\* C8: value(E) raises the unassigned-variable error whenever a variable E
\* transitively depends on is unbound.
C8_UnboundValueRaises ==
    \A n \in NodeIds :
        ~AllBound(n) => Val(val, n).err = "VariableAssignmentError"

\* a compound expression one of whose two variables is bound and the other not,
\* after a pass over it was invalidated by an unbind
C8_Witness ==
    \E n \in ExprIds, v \in VarIds, w \in VarIds :
        /\ Leaves(n) = {v, w} /\ assigned[v] /\ ~assigned[w]
        /\ passes > 0 /\ n \notin DOMAIN d[n] /\ n \in DOMAIN d[v]
        /\ Val(val, n).err = "VariableAssignmentError"

\* C9: when the scope guard exits, every variable named in the assign call is
\* unassigned afterwards.
C9_ExitUnbindsAll ==
    [][\A exc_type \in {"None", "Exception"} :
          AssignmentContext_exit(exc_type)
              => \A i \in 1..Len(scopes[Len(scopes)]) :
                     ~assigned'[by_name[scopes[Len(scopes)][i]]]]_vars

\* C10: an enter that fails at one name of the batch leaves the variables bound
\* earlier in the same enter assigned to the batch's values, and no guard is
\* kept for them.
C10_FailedEnterKeepsBindings ==
    [][\A batch \in Batches :
          (~Enter(batch, 1, assigned, val).ok /\ AssignmentContext_enter(batch))
              => /\ scopes' = scopes
                 /\ \A j \in 1..(Enter(batch, 1, assigned, val).at - 1) :
                        /\ assigned'[by_name[batch[j][1]]]
                        /\ val'[by_name[batch[j][1]]] = Some(batch[j][2])]_vars

\* after assign(first=.., second=..) failed at its second name, which is
\* unknown: the first variable is bound and no guard is held
C10_Witness ==
    \E batch \in Batches :
        /\ Len(batch) = 2 /\ scopes = <<>>
        /\ by_name[batch[1][1]] # 0 /\ by_name[batch[2][1]] = 0
        /\ assigned[by_name[batch[1][1]]]
        /\ val[by_name[batch[1][1]]] = Some(batch[1][2])

\* C11: the registry maps each name to one Variable, the first created with
\* that name: a creation under an existing name raises ValueError and leaves the
\* registry and the existing variables' assigned flags, values and dependents as
\* they were, a registered name keeps its variable, and the lookup of an absent
\* name raises KeyError.
C11_RegistryFirstWins ==
    [][/\ \A nm \in Names :
              /\ by_name[nm] # 0 => by_name'[nm] = by_name[nm]
              /\ (Variable_init(nm) /\ by_name[nm] # 0)
                     => /\ Variable_init_raises(nm) = "ValueError"
                        /\ by_name' = by_name /\ assigned' = assigned
                        /\ val' = val /\ dependent_exps' = dependent_exps
              /\ by_name[nm] = 0
                     => /\ get_by_name(nm).err = "KeyError"
                        /\ \A x \in Values :
                               Enter(<<<<nm, x>>>>, 1, assigned, val).err = "KeyError"
              /\ by_name[nm] # 0
                     => /\ get_by_name(nm).ok
                        /\ nodes[by_name[nm]].kind = "var"
                        /\ nodes[by_name[nm]].name = nm
       /\ \A v \in VarIds : by_name[nodes[v].name] = v]_vars

\* one name is registered, its variable is bound and has a dependent expression
\* (what a second creation under the name must leave alone); the other name is
\* still absent
C11_Witness ==
    \E nm \in Names, other \in Names :
        /\ by_name[nm] # 0 /\ by_name[other] = 0
        /\ assigned[by_name[nm]] /\ val[by_name[nm]] # None
        /\ dependent_exps[by_name[nm]] # {}

\* C12: bind succeeds only on an unassigned variable and unbind only on an
\* assigned one; a bind on a bound variable raises the already-assigned error, an
\* unbind on an unbound one the not-assigned error, and a rejected call changes
\* no assigned flag, no value and no node's cache.
C12_BindUnbindAlternate ==
    [][\A v \in VarIds :
          /\ Set(assigned, val, v, Whole(2)).ok = ~assigned[v]
          /\ Unset(assigned, val, d, v).ok = assigned[v]
          /\ \A x \in Values :
                 /\ (Variable_set(v, x) /\ assigned[v])
                        => /\ Set(assigned, val, v, x).err = "VariableAssignmentError"
                           /\ Set(assigned, val, v, x).msg = "is already assigned"
                           /\ assigned' = assigned /\ val' = val /\ d' = d
                 /\ (Variable_set(v, x) /\ ~assigned[v])
                        => assigned'[v] /\ val'[v] = Some(x)
          /\ (Variable_unset(v) /\ ~assigned[v])
                 => /\ Unset(assigned, val, d, v).err = "VariableAssignmentError"
                    /\ Unset(assigned, val, d, v).msg = "is not assigned"
                    /\ assigned' = assigned /\ val' = val /\ d' = d
          /\ (Variable_unset(v) /\ assigned[v]) => ~assigned'[v]]_vars

\* a bound variable whose dependent expression has a cached value and entries of
\* a pass (what a rejected bind must leave alone), next to an unbound variable
\* (on which an unbind is rejected)
C12_Witness ==
    \E v \in VarIds, w \in VarIds, e \in ExprIds :
        /\ assigned[v] /\ ~assigned[w]
        /\ e \in dependent_exps[v] /\ val[e] # None /\ e \in DOMAIN d[v]

\* C13: for an expression E whose leaf variables are all bound, the read of
\* d(E, E) succeeds and returns 1, in every reachable state.
C13_SelfDerivativeIsOne ==
    \A E \in NodeIds :
        AllBound(E) => /\ DerivativeView_val(val, d, E, E).ok
                       /\ DerivativeView_val(val, d, E, E).v = Whole(1)

\* a compound expression E, all leaves bound, that carries the entry of a pass
\* from a root Z it is an operand of, and reads 1 against itself
C13_Witness ==
    \E Z \in ExprIds, E \in ExprIds :
        /\ E \in Range(nodes[Z].subexps) /\ Z \in DOMAIN d[E]
        /\ AllBound(E) /\ E \notin DOMAIN d[E]
        /\ DerivativeView_val(val, d, E, E).v = Whole(1)

\* C14: after a successful read of d(R, N), with no unbind in between, a further
\* read of d(R, Y) for any Y succeeds, changes no node's _d or _val, and for
\* Y = N returns the value the first read returned.
C14_MemoizedPerRoot ==
    [][\A R \in NodeIds, N \in NodeIds :
          (value_d(R, N) /\ DerivativeView_val(val, d, R, N).ok)
              => \A Y \in NodeIds :
                     /\ DerivativeView_val(val', d', R, Y).ok
                     /\ DerivativeView_val(val', d', R, Y).d = d'
                     /\ DerivativeView_val(val', d', R, Y).val = val'
                     /\ Y = N => DerivativeView_val(val', d', R, Y).v
                                     = DerivativeView_val(val, d, R, N).v]_vars

\* a pass from a root over two distinct bound variables has run: both carry its
\* entry, so d(R, x) and d(R, y) can be read one after the other
C14_Witness ==
    \E R \in ExprIds, x \in VarIds, y \in VarIds :
        /\ x # y /\ Leaves(R) = {x, y} /\ AllBound(R)
        /\ R \in DOMAIN d[R] /\ R \in DOMAIN d[x] /\ R \in DOMAIN d[y]
        /\ passes = 1

\* C15: for z = x * y over two distinct bound variables, the read of d(z, x)
\* returns the value bound to y and the read of d(z, y) the value bound to x.
C15_ProductRule ==
    \A z \in ExprIds, x \in VarIds, y \in VarIds :
        (/\ nodes[z].kind = "mul" /\ nodes[z].subexps = <<x, y>> /\ x # y
         /\ assigned[x] /\ assigned[y])
            => /\ DerivativeView_val(val, d, z, x).v = val[y][1]
               /\ DerivativeView_val(val, d, z, y).v = val[x][1]

\* true subtraction and division of numbers
Minus(a, b) == Frac(a[1] * b[2] - b[1] * a[2], a[2] * b[2])
Over(a, b) == Frac(a[1] * b[2], a[2] * b[1])

\* ordinary arithmetic has a value at n: no zero is raised to a negative power
RECURSIVE ArithDefined(_)
ArithDefined(n) ==
    /\ \A e \in Range(nodes[n].subexps) : ArithDefined(e)
    /\ nodes[n].kind = "pow" => ~PowerRaises(Arith(nodes[n].subexps[1]), nodes[n].const)

\* value(E) agrees with the number w, or with the division by zero when w is <<>>
Agrees(r, w) ==
    IF w = <<>> THEN r.err = "ZeroDivisionError" ELSE r.ok /\ r.v = w

\* the ordinary arithmetic of a node, <<>> where it has no value
Ordinary(n) == IF ArithDefined(n) THEN Arith(n) ELSE <<>>

\* the ordinary a - b and a / b of two results, <<>> where there is no value
OrdinaryMinus(a, b) == IF a = <<>> \/ b = <<>> THEN <<>> ELSE Minus(a, b)
OrdinaryOver(a, b) ==
    IF a = <<>> \/ b = <<>> THEN <<>> ELSE IF b[1] = 0 THEN <<>> ELSE Over(a, b)

\* in the graph ns, node n is k2(a, k1(b)) with the constant c1 in k1, or
\* k2(k1(b)) with the constants c1 and c2 when a = 0
Shape(ns, n, k1, b, c1, k2, a, c2) ==
    /\ n > 1
    /\ ns[n].kind = k2 /\ ns[n].const = c2
    /\ ns[n].subexps = IF a = 0 THEN <<n - 1>> ELSE <<a, n - 1>>
    /\ ns[n - 1].kind = k1 /\ ns[n - 1].const = c1 /\ ns[n - 1].subexps = <<b>>

\* every node with all its variables bound reads as its ordinary arithmetic,
\* and the nodes of the shapes that -, / build read as the true difference or
\* quotient of their operands
ReadsAsArithmetic ==
    \A n \in NodeIds :
        AllBound(n) =>
            /\ Agrees(Val(val, n), Ordinary(n))
            /\ \A b \in NodeIds :
                   /\ \A a \in NodeIds :
                          /\ Shape(nodes, n, "mulc", b, Whole(-1), "add", a, 0)
                                 => Agrees(Val(val, n),
                                           OrdinaryMinus(Ordinary(a), Ordinary(b)))
                          /\ Shape(nodes, n, "pow", b, -1, "mul", a, 0)
                                 => Agrees(Val(val, n),
                                           OrdinaryOver(Ordinary(a), Ordinary(b)))
                   /\ \A c \in ArithConsts :
                          /\ Shape(nodes, n, "mulc", b, Whole(-1), "addc", 0, c)
                                 => Agrees(Val(val, n), OrdinaryMinus(c, Ordinary(b)))
                          /\ Shape(nodes, n, "pow", b, -1, "mulc", 0, c)
                                 => Agrees(Val(val, n), OrdinaryOver(c, Ordinary(b)))
                          /\ (nodes[n].kind = "addc" /\ nodes[n].subexps = <<b>>
                              /\ nodes[n].const = Times(Whole(-1), c))
                                 => Agrees(Val(val, n), OrdinaryMinus(Ordinary(b), c))
                          /\ (nodes[n].kind = "mulc" /\ nodes[n].subexps = <<b>>
                              /\ ~PowerRaises(c, -1) /\ nodes[n].const = Power(c, -1))
                                 => Agrees(Val(val, n), OrdinaryOver(Ordinary(b), c))

\* a - b, c - a, a / b, c / a build the shapes above; a - c and a / c build one
\* node with the constant -c or 1/c, and a / 0 builds nothing
BuildsRewritten ==
    \A a \in NodeIds :
        /\ \A b \in NodeIds :
               /\ Expression_sub(a, b)
                      => Shape(nodes', Len(nodes'), "mulc", b, Whole(-1), "add", a, 0)
               /\ Expression_truediv(a, b)
                      => Shape(nodes', Len(nodes'), "pow", b, -1, "mul", a, 0)
        /\ \A c \in ArithConsts :
               /\ Expression_rsub(a, c)
                      => Shape(nodes', Len(nodes'), "mulc", a, Whole(-1), "addc", 0, c)
               /\ Expression_rtruediv(a, c)
                      => Shape(nodes', Len(nodes'), "pow", a, -1, "mulc", 0, c)
               /\ (Expression_sub_const(a, c) /\ Len(nodes) < MaxNodes)
                      => /\ nodes'[Len(nodes')].kind = "addc"
                         /\ nodes'[Len(nodes')].subexps = <<a>>
                         /\ nodes'[Len(nodes')].const = Times(Whole(-1), c)
               /\ (Expression_truediv_const(a, c) /\ Len(nodes) < MaxNodes)
                      => IF c[1] = 0 THEN nodes' = nodes
                         ELSE /\ nodes'[Len(nodes')].kind = "mulc"
                              /\ nodes'[Len(nodes')].subexps = <<a>>
                              /\ nodes'[Len(nodes')].const = Power(c, -1)

\* C16: with all its variables bound, value(E) of an expression built from
\* +, -, *, / over variables and numbers is the result of ordinary arithmetic on
\* the bound numbers, a - b being built as a + (-1 * b) and a / b as a * b ** -1.
C16_ValueIsArithmetic == []ReadsAsArithmetic /\ [][BuildsRewritten]_vars

\* the quotient x / y of two distinct bound variables, read: its cached value is
\* not a whole number
C16_Witness ==
    \E n \in ExprIds, x \in VarIds, y \in VarIds :
        /\ x # y /\ nodes[n].kind = "mul" /\ nodes[n].subexps[1] = x
        /\ nodes[nodes[n].subexps[2]].kind = "pow"
        /\ nodes[nodes[n].subexps[2]].subexps = <<y>>
        /\ val[n] # None /\ val[n][1][2] # 1

\* C17 as stated: for N that is neither R nor a transitive operand of R, the
\* read of d(R, N) returns 0 in every reachable state and adds no entry to N.
C17_DisconnectedIsZero ==
    \A R \in NodeIds, N \in NodeIds :
        N \notin Reach(R)
            => /\ DerivativeView_val(val, d, R, N).ok
               /\ DerivativeView_val(val, d, R, N).v = Whole(0)
               /\ DerivativeView_val(val, d, R, N).d[N] = d[N]

\* C17 as amended: for N that is neither R nor a transitive operand of R, a read
\* of d(R, N) that does not fail returns 0, and the read, failed or not, leaves
\* N's entries as they were.
C17_DisconnectedIsZeroIfRead ==
    \A R \in NodeIds, N \in NodeIds :
        N \notin Reach(R)
            => /\ DerivativeView_val(val, d, R, N).ok
                      => DerivativeView_val(val, d, R, N).v = Whole(0)
               /\ DerivativeView_val(val, d, R, N).d[N] = d[N]

\* a pass from a compound root over a bound variable has run and left its entry
\* on the variable; another bound variable, no operand of the root, has none
C17_Witness ==
    \E R \in ExprIds, x \in VarIds, N \in VarIds :
        /\ x \in Reach(R) /\ N \notin Reach(R) /\ AllBound(R) /\ assigned[N]
        /\ R \in DOMAIN d[R] /\ R \in DOMAIN d[x] /\ d[N] = <<>>
        /\ DerivativeView_val(val, d, R, N).ok

\* C18: a step that builds an expression, with +, *, **, /, unary minus, exp,
\* ln, log or logistic, whether its variables are bound or not and whether the
\* call returns or raises on a numeric operand, leaves every node that existed
\* with its operands, cached value, partial derivatives, assigned flag and bound
\* value, leaves the new nodes without a cached value and without partials, and
\* adds nothing but the new nodes to the dependent sets of variables; and the
\* functions of one Expression can be called whichever variables are bound.
Kept(old, new) == SubSeq(new, 1, Len(old)) = old

NewIds == (Len(nodes) + 1)..Len(nodes')

BuildStep == Len(nodes') > Len(nodes)

BuildFrame ==
    /\ Kept(nodes, nodes')
    /\ Kept(val, val')
    /\ Kept(d, d')
    /\ Kept(assigned, assigned')
    /\ \A n \in NewIds : val'[n] = None /\ d'[n] = <<>> /\ ~assigned'[n]
    /\ \A n \in NodeIds :
           /\ dependent_exps[n] \subseteq dependent_exps'[n]
           /\ dependent_exps'[n] \ dependent_exps[n] \subseteq NewIds
           /\ ~IsVar(n) => dependent_exps'[n] = dependent_exps[n]

BuildsUnbound ==
    \A a \in NodeIds :
        Len(nodes) < MaxNodes =>
            /\ ENABLED exp(a)
            /\ ENABLED ln(a)
            /\ ENABLED logistic(a)
            /\ ENABLED Expression_neg(a)

C18_BuildingIsPure == []BuildsUnbound /\ [][BuildStep => BuildFrame]_vars

\* a product with a cached value and partials, and after it the two nodes of a
\* log(arg, 2) over a variable that is not bound
C18_Witness ==
    \E m, n \in NodeIds :
        /\ nodes[m].kind = "mul" /\ val[m] # None /\ d[m] # <<>>
        /\ n = m + 2 /\ nodes[n].kind = "mulc" /\ ~IsPair(nodes[n].const)
        /\ nodes[n - 1].kind = "ln"
        /\ \A v \in nodes[n].var_deps : ~assigned[v]
        /\ val[n] = None

\* C19: in every reachable state in which no variable is assigned, every node's
\* cached value is absent and its partial-derivative mapping is empty.
C19_NothingBoundNothingCached ==
    (\A v \in VarIds : ~assigned[v]) =>
        \A n \in NodeIds : val[n] = None /\ d[n] = <<>>

\* C20: in the processing order a pass from R computes, R comes first, the
\* nodes processed are the nodes reachable from R, and a node is processed only
\* once every node that uses it as an operand has been processed: no node is
\* processed at a later position than one of its operands.
UsersFirst(order) ==
    \A i, j \in 1..Len(order) :
        order[i] \in Range(nodes[order[j]].subexps) => j < i

C20_UsersProcessedFirst ==
    \A R \in NodeIds :
        /\ Order(R)[1] = R
        /\ Range(Order(R)) = Reach(R)
        /\ UsersFirst(Order(R))

\* C21: in the processing order a pass from R computes, every node reachable
\* from R stands at exactly one position, so its _deriv runs once in the pass.
Positions(order, n) == {i \in 1..Len(order) : order[i] = n}

C21_EnteredExactlyOnce ==
    \A R \in NodeIds :
        \A n \in Reach(R) : Cardinality(Positions(Order(R), n)) = 1

\* C22: each variable's dependent set is exactly the set of non-leaf nodes that
\* have the variable as a transitive operand; no step takes a node out of it;
\* and a step that unbinds the variable leaves every node of the set without a
\* cached value and without partials.
DependentsAreClosure ==
    \A v \in VarIds : dependent_exps[v] = {n \in ExprIds : v \in Reach(n)}

DependentsGrow ==
    \A n \in NodeIds : dependent_exps[n] \subseteq dependent_exps'[n]

UnbindInvalidates ==
    \A v \in VarIds :
        assigned[v] /\ ~assigned'[v] =>
            \A n \in dependent_exps[v] : val'[n] = None /\ d'[n] = <<>>

C22_DependentsAreClosure ==
    []DependentsAreClosure /\ [][DependentsGrow /\ UnbindInvalidates]_vars

\* a node that is not a direct parent of a variable stands in its dependent
\* set, and after a pass and the variable's unbind it holds nothing
C22_Witness ==
    \E v \in VarIds, n \in ExprIds :
        /\ v \notin Range(nodes[n].subexps) /\ n \in dependent_exps[v]
        /\ ~assigned[v] /\ passes > 0 /\ scopes = <<>>
        /\ val[n] = None /\ d[n] = <<>> /\ d[v] = <<>>

\* C23: unset called on a node that is not a variable leaves that node without
\* a cached value and without partials, and leaves every other node's cached
\* value and partials, every variable's assigned flag and bound value, and the
\* graph as they were.
OnlyCleared(n) ==
    /\ val'[n] = None /\ d'[n] = <<>>
    /\ \A m \in NodeIds \ {n} : val'[m] = val[m] /\ d'[m] = d[m]
    /\ assigned' = assigned
    /\ nodes' = nodes /\ dependent_exps' = dependent_exps /\ by_name' = by_name

C23_InvalidateClearsOnlySelf ==
    [][\A n \in ExprIds : Expression_unset(n) => OnlyCleared(n)]_vars

\* an expression over one variable that is bound holds nothing, and the
\* variable still holds its value and the partial a pass from the expression
\* left on it
C23_Witness ==
    \E n \in ExprIds, x \in VarIds :
        /\ Leaves(n) = {x} /\ assigned[x] /\ val[x] # None
        /\ n \in DOMAIN d[x]
        /\ val[n] = None /\ d[n] = <<>>

\* C24: when the body of an assign scope raised an error, the guard's exit
\* hands the caller of the scope that same error.
C24_BodyErrorReachesCaller ==
    [][AssignmentContext_exit("Exception")
          => with_raises("Exception",
                         Exit(scopes[Len(scopes)], 1, Start(val, d))) = "Exception"]_vars

Init ==
    /\ nodes = <<>>
    /\ val = <<>>
    /\ d = <<>>
    /\ assigned = <<>>
    /\ dependent_exps = <<>>
    /\ by_name = [nm \in Names |-> 0]
    /\ scopes = <<>>
    /\ val0 = <<>>
    /\ d0 = <<>>
    /\ passes = 0

Next ==
    \/ \E nm \in Names : Variable_init(nm)
    \/ \E a, b \in NodeIds : AdditionExpression(a, b)
    \/ \E a \in NodeIds, c \in Consts : ConstantAdditionExpression(a, c)
    \/ \E a, b \in NodeIds : MultiplicationExpression(a, b)
    \/ \E a \in NodeIds, c \in Consts : ConstantMultiplicationExpression(a, c)
    \/ \E a \in NodeIds, p \in Powers : PowerExpression(a, p)
    \/ \E v \in VarIds, x \in Values : Variable_set(v, x)
    \/ \E v \in VarIds : Variable_unset(v)
    \/ \E batch \in Batches : AssignmentContext_enter(batch)
    \/ \E exc_type \in {"None", "Exception"} : AssignmentContext_exit(exc_type)
    \/ \E n \in NodeIds : value(n)
    \/ \E num, denom \in NodeIds : value_d(num, denom)

Spec == Init /\ [][Next]_vars

\* building with +, -, *, / over variables and numbers, binding and reading
NextArith ==
    \/ \E nm \in Names : Variable_init(nm)
    \/ \E a, b \in NodeIds : AdditionExpression(a, b)
    \/ \E a \in NodeIds, c \in ArithConsts : ConstantAdditionExpression(a, c)
    \/ \E a, b \in NodeIds : MultiplicationExpression(a, b)
    \/ \E a \in NodeIds, c \in ArithConsts : ConstantMultiplicationExpression(a, c)
    \/ \E a, b \in NodeIds : Expression_sub(a, b)
    \/ \E a \in NodeIds, c \in ArithConsts : Expression_sub_const(a, c)
    \/ \E a \in NodeIds, c \in ArithConsts : Expression_rsub(a, c)
    \/ \E a, b \in NodeIds : Expression_truediv(a, b)
    \/ \E a \in NodeIds, c \in ArithConsts : Expression_truediv_const(a, c)
    \/ \E a \in NodeIds, c \in ArithConsts : Expression_rtruediv(a, c)
    \/ \E v \in VarIds, x \in Values : Variable_set(v, x)
    \/ \E v \in VarIds : Variable_unset(v)
    \/ \E n \in NodeIds : value(n)

SpecArith == Init /\ [][NextArith]_vars

\* every operation of Spec, and a caller's own unset of an expression
NextInvalidate ==
    \/ Next
    \/ \E n \in ExprIds : Expression_unset(n)

SpecInvalidate == Init /\ [][NextInvalidate]_vars

\* the ways of building an expression that SpecArith does not take, with binds
\* and the reads of the nodes whose value the model's numbers hold
NextBuild ==
    \/ \E nm \in Names : Variable_init(nm)
    \/ \E a, b \in NodeIds : AdditionExpression(a, b)
    \/ \E a \in NodeIds, c \in Consts : ConstantAdditionExpression(a, c)
    \/ \E a, b \in NodeIds : MultiplicationExpression(a, b)
    \/ \E a \in NodeIds, c \in Consts : ConstantMultiplicationExpression(a, c)
    \/ \E a \in NodeIds, p \in Powers : PowerExpression(a, p)
    \/ \E a, b \in NodeIds : Expression_pow(a, b)
    \/ \E a \in NodeIds, c \in ArithConsts : Expression_rpow(a, c)
    \/ \E a \in NodeIds, c \in ArithConsts : Expression_truediv_const(a, c)
    \/ \E a \in NodeIds : Expression_neg(a)
    \/ \E a \in NodeIds : exp(a)
    \/ \E a \in NodeIds : ln(a)
    \/ \E a, b \in NodeIds : log(a, b)
    \/ \E a \in NodeIds, c \in LogConsts : log_base(a, c)
    \/ \E c \in LogConsts, b \in NodeIds : log_arg(c, b)
    \/ \E a \in NodeIds : logistic(a)
    \/ \E v \in VarIds, x \in Values : Variable_set(v, x)
    \/ \E n \in NodeIds : Exact(n) /\ value(n)
    \/ \E num, denom \in NodeIds : Exact(num) /\ value_d(num, denom)

SpecBuild == Init /\ [][NextBuild]_vars
====
